---- MODULE Spec2Model ----
(***************************************************************************)
(* Child Immunization Registry API: the five create/list endpoint pairs    *)
(* of main.py, the pydantic entity definitions of schemas.py, and the      *)
(* document store behind create_document / get_documents.                  *)
(***************************************************************************)
EXTENDS Integers, Sequences, FiniteSets, TLC

VARIABLES
    db,         \* the store handle imported by main.py: DbNone or a database
    store,      \* the database: collection name -> sequence of documents
    nextOid,    \* the store's identifier generator
    response,   \* the last request served and the reply it got
    created,    \* history: every successful create, in order
    memo        \* history: one list reply remembered since the last insert

vars == <<db, store, nextOid, response, created, memo>>

\* Total number of documents the store may hold in a run.
MaxDocs == 2

----------------------------------------------------------------------------
\* Python values

\* Optional[T]: None, or a value.  A JSON object key that may be absent is
\* written the same way (Missing).
None == <<>>
Some(v) == <<v>>
Missing == <<>>

DbNone == "None"
Database == "Database"

COLLECTIONS == {"guardian", "child", "vaccine", "immunization", "appointment"}

\* ObjectId values are [oid |-> n]; str(ObjectId) is the 24-digit hex text.
ObjectId(n) == [oid |-> n]

HexDigits == <<"0", "1", "2", "3", "4", "5", "6", "7",
               "8", "9", "a", "b", "c", "d", "e", "f">>

RECURSIVE HexText(_, _)
HexText(n, width) ==
    IF width = 0 THEN ""
    ELSE HexText(n \div 16, width - 1) \o HexDigits[(n % 16) + 1]

ObjectIdStr(o) == HexText(o.oid, 24)

\* truthiness of an Optional[str], as `if child_id` tests it
Truthy(x) == x # None /\ x[1] # ""

----------------------------------------------------------------------------
\* schemas.py: the entity definitions, as pydantic validates a JSON body.
\* A body is a record of Optional keys; the result is [ok, model, errors].

Invalid(errs) == [ok |-> FALSE, model |-> None, errors |-> errs]
Valid(m) == [ok |-> TRUE, model |-> m, errors |-> {}]

RequiredErrors(body, fields) ==
    {<<f, "missing">> : f \in {g \in fields : body[g] = Missing}}

\* Field(..., ge=1) / Field(1, ge=1): present values must be >= 1
GeErrors(body, f, bound) ==
    IF body[f] # Missing /\ body[f][1] < bound
    THEN {<<f, "greater_than_equal">>} ELSE {}

IsLeap(y) == (y % 4 = 0 /\ y % 100 # 0) \/ y % 400 = 0

DaysInMonth(y, m) ==
    IF m = 2 THEN (IF IsLeap(y) THEN 29 ELSE 28)
    ELSE IF m \in {4, 6, 9, 11} THEN 30 ELSE 31

\* a `date` field: the ISO text <<y, m, d>> must name a calendar day
DateOK(t) == t[2] \in 1..12 /\ t[3] \in 1..DaysInMonth(t[1], t[2])

ParseDate(t) == [year |-> t[1], month |-> t[2], day |-> t[3]]

DateErrors(body, f) ==
    IF body[f] # Missing /\ ~DateOK(body[f][1])
    THEN {<<f, "date_from_datetime_parsing">>} ELSE {}

Guardian(body) ==
    LET errs == RequiredErrors(body, {"name"})
    IN  IF errs # {} THEN Invalid(errs)
        ELSE Valid([name |-> body.name[1],
                    phone |-> body.phone,
                    email |-> body.email,
                    relationship |-> body.relationship,
                    address |-> body.address])

Child(body) ==
    LET errs == RequiredErrors(body, {"first_name", "last_name", "date_of_birth"})
                \cup DateErrors(body, "date_of_birth")
    IN  IF errs # {} THEN Invalid(errs)
        ELSE Valid([first_name |-> body.first_name[1],
                    last_name |-> body.last_name[1],
                    gender |-> body.gender,
                    date_of_birth |-> ParseDate(body.date_of_birth[1]),
                    birth_certificate_number |-> body.birth_certificate_number,
                    national_id |-> body.national_id,
                    guardian_id |-> body.guardian_id])

Vaccine(body) ==
    LET errs == RequiredErrors(body, {"name"})
                \cup GeErrors(body, "doses_required", 1)
    IN  IF errs # {} THEN Invalid(errs)
        ELSE Valid([name |-> body.name[1],
                    code |-> body.code,
                    manufacturer |-> body.manufacturer,
                    doses_required |-> IF body.doses_required = Missing
                                       THEN Some(1) ELSE body.doses_required,
                    recommended_ages_weeks |-> body.recommended_ages_weeks])

\* Immunization with dose_number declared ge=0
ImmunizationGe0(body) ==
    LET errs == RequiredErrors(body, {"child_id", "vaccine_id", "dose_number",
                                      "date_administered"})
                \cup GeErrors(body, "dose_number", 0)
                \cup DateErrors(body, "date_administered")
    IN  IF errs # {} THEN Invalid(errs)
        ELSE Valid([child_id |-> body.child_id[1],
                    vaccine_id |-> body.vaccine_id[1],
                    dose_number |-> body.dose_number[1],
                    date_administered |-> ParseDate(body.date_administered[1]),
                    administered_by |-> body.administered_by,
                    location |-> body.location,
                    lot_number |-> body.lot_number,
                    adverse_events |-> body.adverse_events])

Immunization(body) ==
    LET errs == RequiredErrors(body, {"child_id", "vaccine_id", "dose_number",
                                      "date_administered"})
                \cup GeErrors(body, "dose_number", 1)
                \cup DateErrors(body, "date_administered")
    IN  IF errs # {} THEN Invalid(errs)
        ELSE Valid([child_id |-> body.child_id[1],
                    vaccine_id |-> body.vaccine_id[1],
                    dose_number |-> body.dose_number[1],
                    date_administered |-> ParseDate(body.date_administered[1]),
                    administered_by |-> body.administered_by,
                    location |-> body.location,
                    lot_number |-> body.lot_number,
                    adverse_events |-> body.adverse_events])

Appointment(body) ==
    LET errs == RequiredErrors(body, {"child_id", "vaccine_id", "dose_number",
                                      "scheduled_date"})
                \cup GeErrors(body, "dose_number", 1)
                \cup DateErrors(body, "scheduled_date")
    IN  IF errs # {} THEN Invalid(errs)
        ELSE Valid([child_id |-> body.child_id[1],
                    vaccine_id |-> body.vaccine_id[1],
                    dose_number |-> body.dose_number[1],
                    scheduled_date |-> ParseDate(body.scheduled_date[1]),
                    notes |-> body.notes])

----------------------------------------------------------------------------
\* The request bodies and query values the endpoints are driven with.

\* the text form of the first identifier the store hands out (a reference to
\* it dangles unless that document is in the collection referred to), and
\* the empty text
FirstIdText == ObjectIdStr(ObjectId(1))
ReferenceTexts == {"", FirstIdText}

GoodDate == <<2023, 1, 1>>
BadDate == <<2023, 2, 30>>

GuardianBodies ==
    [name : {Missing, Some("Jane Doe")},
     phone : {Missing},
     email : {Missing}, relationship : {Missing}, address : {Missing}]

ChildBodies ==
    [first_name : {Missing, Some("Amy")},
     last_name : {Some("Doe")},
     gender : {Missing},
     date_of_birth : {Some(GoodDate), Some(BadDate)},
     birth_certificate_number : {Missing},
     national_id : {Missing},
     guardian_id : {Some(FirstIdText)}]

VaccineBodies ==
    [name : {Missing, Some("BCG")},
     code : {Missing}, manufacturer : {Missing},
     doses_required : {Missing, Some(0), Some(2)},
     recommended_ages_weeks : {Missing}]

ImmunizationBodies ==
    [child_id : {Missing} \cup {Some(t) : t \in ReferenceTexts},
     vaccine_id : {Some(FirstIdText)},
     dose_number : {Some(0), Some(1)},
     date_administered : {Some(GoodDate)},
     administered_by : {Missing}, location : {Missing},
     lot_number : {Missing}, adverse_events : {Missing}]

AppointmentBodies ==
    [child_id : {Missing} \cup {Some(t) : t \in ReferenceTexts},
     vaccine_id : {Some(FirstIdText)},
     dose_number : {Some(0), Some(1)},
     scheduled_date : {Some(GoodDate)},
     notes : {Missing}]

\* the child_id query parameter: Optional[str] = None
ChildIdParams == {None} \cup {Some(t) : t \in ReferenceTexts}

----------------------------------------------------------------------------
\* database.py: the document store helpers main.py imports.

TotalDocs ==
    Len(store["guardian"]) + Len(store["child"]) + Len(store["vaccine"])
    + Len(store["immunization"]) + Len(store["appointment"])

\* the runs explored stop inserting at MaxDocs documents
HasRoom == TotalDocs < MaxDocs

\* the document insert_one stores: the model's fields plus a fresh _id
NewDocument(model, oid) ==
    [f \in DOMAIN model \cup {"_id"} |-> IF f = "_id" THEN oid ELSE model[f]]

\* create_document(collection_name, data): insert one, return the id as text
create_document(collection_name, model) ==
    /\ store' = [store EXCEPT ![collection_name] =
                    Append(@, NewDocument(model, ObjectId(nextOid)))]
    /\ nextOid' = nextOid + 1

InsertedIdText == ObjectIdStr(ObjectId(nextOid))

\* get_documents(collection_name, filter_dict): find, in insertion order
Matches(doc, filter_dict) ==
    filter_dict = None \/ doc.child_id = filter_dict[1].child_id

get_documents(collection_name, filter_dict) ==
    LET Test(doc) == Matches(doc, filter_dict)
    IN  SelectSeq(store[collection_name], Test)

----------------------------------------------------------------------------
\* main.py: replies

Reply(route, coll, request, status, id, docs, detail, trace) ==
    [route |-> route, coll |-> coll, request |-> request, status |-> status,
     id |-> id, docs |-> docs, detail |-> detail, trace |-> trace]

NoMemo == [coll |-> "none", child_id |-> None, docs |-> <<>>]

\* the framework rejects a body the request model does not accept (422)
\* before the endpoint function is entered
RejectBody(coll, body, errors) ==
    /\ response' = Reply("create", coll, body, 422, "", <<>>, errors,
                         <<"validate">>)
    /\ UNCHANGED <<db, store, nextOid, created, memo>>

\* ensure_db with the test inverted
ensure_db_inverted == db # DbNone

\* ensure_db(): raise HTTPException(500) when db is None
ensure_db_raises == db = DbNone

Unavailable(route, coll, request, trace) ==
    /\ response' = Reply(route, coll, request, 500, "", <<>>,
                         "Database not configured", trace)
    /\ UNCHANGED <<db, store, nextOid, created, memo>>

\* return {"id": ...} after create_document
Created(coll, body, payload) ==
    /\ HasRoom
    /\ create_document(coll, payload)
    /\ response' = Reply("create", coll, body, 200, InsertedIdText, <<>>, {},
                         <<"validate", "ensure_db", "insert">>)
    /\ created' = Append(created, [coll |-> coll, payload |-> payload,
                                   id |-> InsertedIdText])
    /\ memo' = NoMemo
    /\ UNCHANGED db

\* the loop reading the wrong key: str(d.get("id")) is "None"
StrIdsWrongKey(docs) ==
    [i \in 1..Len(docs) |-> [docs[i] EXCEPT !["_id"] = "None"]]

\* for d in docs: d["_id"] = str(d.get("_id"))
StrIds(docs) ==
    [i \in 1..Len(docs) |-> [docs[i] EXCEPT !["_id"] = ObjectIdStr(@)]]

\* filter_q never built
filter_q_dropped(child_id) == None

\* filter_q built whenever child_id is not None
filter_q_not_none(child_id) ==
    IF child_id # None THEN Some([child_id |-> child_id[1]]) ELSE None

\* filter_q = {"child_id": child_id} if child_id else None
filter_q(child_id) ==
    IF Truthy(child_id) THEN Some([child_id |-> child_id[1]]) ELSE None

\* return docs
Listed(coll, child_id, docs) ==
    /\ response' = Reply("list", coll, child_id, 200, "", docs, {},
                         <<"ensure_db", "find">>)
    /\ memo' \in {memo, [coll |-> coll, child_id |-> child_id, docs |-> docs]}
    /\ UNCHANGED <<db, store, nextOid, created>>

----------------------------------------------------------------------------
\* main.py: endpoints

\* create_guardian calling ensure_db before the body is validated
create_guardian_db_first ==
    \E body \in GuardianBodies :
        LET payload == Guardian(body)
        IN  IF ensure_db_raises
            THEN Unavailable("create", "guardian", body, <<"ensure_db">>)
            ELSE IF ~payload.ok THEN RejectBody("guardian", body, payload.errors)
            ELSE Created("guardian", body, payload.model)

create_guardian ==
    \E body \in GuardianBodies :
        LET payload == Guardian(body)
        IN  IF ~payload.ok THEN RejectBody("guardian", body, payload.errors)
            ELSE IF ensure_db_raises
            THEN Unavailable("create", "guardian", body, <<"validate", "ensure_db">>)
            ELSE Created("guardian", body, payload.model)

list_guardians ==
    IF ensure_db_raises
    THEN Unavailable("list", "guardian", None, <<"ensure_db">>)
    ELSE Listed("guardian", None, StrIds(get_documents("guardian", None)))

\* create_child refusing a guardian_id that names no stored guardian
create_child_checked ==
    \E body \in ChildBodies :
        LET payload == Child(body)
        IN  IF ~payload.ok THEN RejectBody("child", body, payload.errors)
            ELSE IF ensure_db_raises
            THEN Unavailable("create", "child", body, <<"validate", "ensure_db">>)
            ELSE IF /\ payload.model.guardian_id # None
                    /\ \A k \in 1..Len(store["guardian"]) :
                          ObjectIdStr(store["guardian"][k]["_id"])
                              # payload.model.guardian_id[1]
            THEN RejectBody("child", body, {<<"guardian_id", "not_found">>})
            ELSE Created("child", body, payload.model)

create_child ==
    \E body \in ChildBodies :
        LET payload == Child(body)
        IN  IF ~payload.ok THEN RejectBody("child", body, payload.errors)
            ELSE IF ensure_db_raises
            THEN Unavailable("create", "child", body, <<"validate", "ensure_db">>)
            ELSE Created("child", body, payload.model)

list_children ==
    IF ensure_db_raises
    THEN Unavailable("list", "child", None, <<"ensure_db">>)
    ELSE Listed("child", None, StrIds(get_documents("child", None)))

\* create_vaccine replacing the collection's documents instead of inserting
create_vaccine_replace ==
    \E body \in VaccineBodies :
        LET payload == Vaccine(body)
        IN  IF ~payload.ok THEN RejectBody("vaccine", body, payload.errors)
            ELSE IF ensure_db_raises
            THEN Unavailable("create", "vaccine", body, <<"validate", "ensure_db">>)
            ELSE /\ HasRoom
                 /\ store' = [store EXCEPT !["vaccine"] =
                        <<NewDocument(payload.model, ObjectId(nextOid))>>]
                 /\ nextOid' = nextOid + 1
                 /\ response' = Reply("create", "vaccine", body, 200,
                                      InsertedIdText, <<>>, {},
                                      <<"validate", "ensure_db", "insert">>)
                 /\ created' = Append(created, [coll |-> "vaccine",
                                                payload |-> payload.model,
                                                id |-> InsertedIdText])
                 /\ memo' = NoMemo
                 /\ UNCHANGED db

create_vaccine ==
    \E body \in VaccineBodies :
        LET payload == Vaccine(body)
        IN  IF ~payload.ok THEN RejectBody("vaccine", body, payload.errors)
            ELSE IF ensure_db_raises
            THEN Unavailable("create", "vaccine", body, <<"validate", "ensure_db">>)
            ELSE Created("vaccine", body, payload.model)

list_vaccines ==
    IF ensure_db_raises
    THEN Unavailable("list", "vaccine", None, <<"ensure_db">>)
    ELSE Listed("vaccine", None, StrIds(get_documents("vaccine", None)))

create_immunization ==
    \E body \in ImmunizationBodies :
        LET payload == Immunization(body)
        IN  IF ~payload.ok THEN RejectBody("immunization", body, payload.errors)
            ELSE IF ensure_db_raises
            THEN Unavailable("create", "immunization", body,
                             <<"validate", "ensure_db">>)
            ELSE Created("immunization", body, payload.model)

\* list_immunizations leaving only the documents it found in the collection
list_immunizations_destructive ==
    \E child_id \in ChildIdParams :
        IF ensure_db_raises
        THEN Unavailable("list", "immunization", child_id, <<"ensure_db">>)
        ELSE LET found == get_documents("immunization", filter_q(child_id))
             IN  /\ response' = Reply("list", "immunization", child_id, 200, "",
                                      StrIds(found), {}, <<"ensure_db", "find">>)
                 /\ memo' \in {memo, [coll |-> "immunization",
                                      child_id |-> child_id,
                                      docs |-> StrIds(found)]}
                 /\ store' = [store EXCEPT !["immunization"] = found]
                 /\ UNCHANGED <<db, nextOid, created>>

list_immunizations ==
    \E child_id \in ChildIdParams :
        IF ensure_db_raises
        THEN Unavailable("list", "immunization", child_id, <<"ensure_db">>)
        ELSE Listed("immunization", child_id,
                    StrIds(get_documents("immunization", filter_q(child_id))))

\* create_appointment also recording the appointment as an immunization
create_appointment_cascade ==
    \E body \in AppointmentBodies :
        LET payload == Appointment(body)
        IN  IF ~payload.ok THEN RejectBody("appointment", body, payload.errors)
            ELSE IF ensure_db_raises
            THEN Unavailable("create", "appointment", body,
                             <<"validate", "ensure_db">>)
            ELSE /\ HasRoom
                 /\ store' = [store EXCEPT
                        !["appointment"] =
                            Append(@, NewDocument(payload.model, ObjectId(nextOid))),
                        !["immunization"] =
                            Append(@, NewDocument(payload.model, ObjectId(nextOid)))]
                 /\ nextOid' = nextOid + 1
                 /\ response' = Reply("create", "appointment", body, 200,
                                      InsertedIdText, <<>>, {},
                                      <<"validate", "ensure_db", "insert">>)
                 /\ created' = Append(created, [coll |-> "appointment",
                                                payload |-> payload.model,
                                                id |-> InsertedIdText])
                 /\ memo' = NoMemo
                 /\ UNCHANGED db

create_appointment ==
    \E body \in AppointmentBodies :
        LET payload == Appointment(body)
        IN  IF ~payload.ok THEN RejectBody("appointment", body, payload.errors)
            ELSE IF ensure_db_raises
            THEN Unavailable("create", "appointment", body,
                             <<"validate", "ensure_db">>)
            ELSE Created("appointment", body, payload.model)

list_appointments ==
    \E child_id \in ChildIdParams :
        IF ensure_db_raises
        THEN Unavailable("list", "appointment", child_id, <<"ensure_db">>)
        ELSE Listed("appointment", child_id,
                    StrIds(get_documents("appointment", filter_q(child_id))))

----------------------------------------------------------------------------
\* The process starts with db configured or not (database.py reads the
\* environment once); the handle is never reassigned.

Init ==
    /\ db \in {DbNone, Database}
    /\ store = [c \in COLLECTIONS |-> <<>>]
    /\ nextOid = 1
    /\ response = Reply("none", "none", None, 0, "", <<>>, {}, <<>>)
    /\ created = <<>>
    /\ memo = NoMemo

Next ==
    \/ create_guardian
    \/ list_guardians
    \/ create_child
    \/ list_children
    \/ create_vaccine
    \/ list_vaccines
    \/ create_immunization
    \/ list_immunizations
    \/ create_appointment
    \/ list_appointments

Spec == Init /\ [][Next]_vars

----------------------------------------------------------------------------
\* Vocabulary of the properties (the entity table of the specification).

RequiredFields(coll) ==
    CASE coll = "guardian" -> {"name"}
      [] coll = "child" -> {"first_name", "last_name", "date_of_birth"}
      [] coll = "vaccine" -> {"name"}
      [] coll = "immunization" -> {"child_id", "vaccine_id", "dose_number",
                                   "date_administered"}
      [] coll = "appointment" -> {"child_id", "vaccine_id", "dose_number",
                                  "scheduled_date"}

DateFields(coll) ==
    CASE coll = "child" -> {"date_of_birth"}
      [] coll = "immunization" -> {"date_administered"}
      [] coll = "appointment" -> {"scheduled_date"}
      [] OTHER -> {}

MissingRequired(coll, body) == \E f \in RequiredFields(coll) : body[f] = Missing

DoseBelowOne(coll, body) ==
    /\ coll \in {"immunization", "appointment"}
    /\ body.dose_number # Missing
    /\ body.dose_number[1] < 1

DosesRequiredBelowOne(coll, body) ==
    /\ coll = "vaccine"
    /\ body.doses_required # Missing
    /\ body.doses_required[1] < 1

NotACalendarDate(coll, body) ==
    \E f \in DateFields(coll) :
        /\ body[f] # Missing
        /\ LET y == body[f][1][1]
               m == body[f][1][2]
               d == body[f][1][3]
           IN  ~(/\ m \in 1..12
                 /\ d >= 1
                 /\ d <= 31
                 /\ (m \in {4, 6, 9, 11} => d <= 30)
                 /\ (m = 2 => d <= 29)
                 /\ (m = 2 /\ d = 29 =>
                        (y % 4 = 0 /\ y % 100 # 0) \/ y % 400 = 0))

WellFormed(coll, body) ==
    /\ ~MissingRequired(coll, body)
    /\ ~DoseBelowOne(coll, body)
    /\ ~DosesRequiredBelowOne(coll, body)
    /\ ~NotACalendarDate(coll, body)

BusinessFields(doc) == [f \in DOMAIN doc \ {"_id"} |-> doc[f]]

\* docs are the stored documents, in order, with identifiers in text form
SameRecords(docs, stored) ==
    /\ Len(docs) = Len(stored)
    /\ \A k \in 1..Len(stored) :
          /\ docs[k]["_id"] = ObjectIdStr(stored[k]["_id"])
          /\ BusinessFields(docs[k]) = BusinessFields(stored[k])

StoredWithChild(coll, c) ==
    LET Test(doc) == doc.child_id = c
    IN  SelectSeq(store[coll], Test)

IsPrefix(s, t) == Len(s) <= Len(t) /\ SubSeq(t, 1, Len(s)) = s

CreateOK == response.route = "create" /\ response.status = 200
ListOK == response.route = "list" /\ response.status = 200
ChildFiltered == response.coll \in {"immunization", "appointment"}

----------------------------------------------------------------------------
\* C1: with the store configured, a create of a well-formed payload returns
\* an identifier that no earlier create returned, and a later unfiltered
\* list of that entity type holds a record with the payload's business
\* fields and that identifier in text form.
C1_CreateThenList ==
    /\ \A i, j \in 1..Len(created) :
          i # j => created[i].id # created[j].id
    /\ (/\ response.route = "create"
        /\ db = Database
        /\ WellFormed(response.coll, response.request))
       => /\ response.status = 200
          /\ response.id = created[Len(created)].id
          /\ \A i \in 1..(Len(created) - 1) : created[i].id # response.id
    /\ (ListOK /\ response.request = None)
       => \A i \in 1..Len(created) :
             created[i].coll = response.coll
             => \E k \in 1..Len(response.docs) :
                   /\ response.docs[k]["_id"] = created[i].id
                   /\ BusinessFields(response.docs[k]) = created[i].payload

C1_Witness ==
    /\ ListOK
    /\ response.coll = "immunization"
    /\ response.request = None
    /\ Len(response.docs) = 2
    /\ Len(created) = 2

\* C2 as stated: a list of immunizations or appointments filtered by any
\* text c a stored record can carry as child_id returns exactly the stored
\* records whose child_id is c.
C2_FilterAnyText ==
    (ListOK /\ ChildFiltered /\ response.request # None)
    => SameRecords(response.docs,
                   StoredWithChild(response.coll, response.request[1]))

\* C2 amended: the same for every non-empty text c; when no stored record
\* has child_id c the reply is the empty sequence with status 200.
C2_FilterNonEmptyText ==
    (/\ response.route = "list"
     /\ db = Database
     /\ ChildFiltered
     /\ response.request # None
     /\ response.request[1] # "")
    => /\ response.status = 200
       /\ SameRecords(response.docs,
                      StoredWithChild(response.coll, response.request[1]))
       /\ \A k \in 1..Len(response.docs) :
             response.docs[k].child_id = response.request[1]
       /\ (StoredWithChild(response.coll, response.request[1]) = <<>>
           => response.docs = <<>>)

C2_Witness ==
    /\ ListOK
    /\ response.coll = "immunization"
    /\ response.request = Some(FirstIdText)
    /\ Len(response.docs) = 1
    /\ Len(store["immunization"]) = 2

\* C3: a create whose payload misses a required field, or has
\* dose_number < 1, or doses_required < 1, is answered with a validation
\* error naming a field, and leaves every collection as it was.
C3_InvalidRejected ==
    [][(/\ response'.route = "create"
        /\ \/ MissingRequired(response'.coll, response'.request)
           \/ DoseBelowOne(response'.coll, response'.request)
           \/ DosesRequiredBelowOne(response'.coll, response'.request))
       => /\ response'.status = 422
          /\ response'.detail # {}
          /\ \A f \in RequiredFields(response'.coll) :
                response'.request[f] = Missing
                => <<f, "missing">> \in response'.detail
          /\ store' = store
          /\ nextOid' = nextOid]_vars

C3_Witness ==
    /\ response.route = "create"
    /\ response.coll = "immunization"
    /\ response.request.dose_number = Some(0)
    /\ response.status = 422
    /\ db = Database
    /\ TotalDocs = 1

\* C4 as stated: with db None every create or list call fails with
\* ServiceUnavailable, attempts no store operation and changes nothing.
C4_AnyCallUnavailable ==
    (db = DbNone /\ response.route \in {"create", "list"})
    => /\ response.status = 500
       /\ \A k \in 1..Len(response.trace) :
             response.trace[k] \notin {"insert", "find"}
       /\ TotalDocs = 0

\* C4 amended: with db None every list call and every create call with a
\* well-formed payload fails with ServiceUnavailable, a create with a
\* malformed payload fails with ValidationError; no call attempts a store
\* operation or changes the state.
C4_UnconfiguredFails ==
    db = DbNone
    => /\ TotalDocs = 0
       /\ nextOid = 1
       /\ created = <<>>
       /\ response.route \in {"create", "list"}
          => /\ \A k \in 1..Len(response.trace) :
                   response.trace[k] \notin {"insert", "find"}
             /\ response.status =
                   IF /\ response.route = "create"
                      /\ ~WellFormed(response.coll, response.request)
                   THEN 422 ELSE 500

C4_Witness ==
    /\ db = DbNone
    /\ response.route = "create"
    /\ response.coll = "child"
    /\ response.status = 500

\* C5: a list call leaves every collection unchanged, and returns the same
\* sequence as an earlier list call of the same entity type and filter when
\* no create succeeded in between.
C5_ListIdempotent ==
    [][(response'.route = "list" /\ response'.status = 200)
       => /\ store' = store
          /\ nextOid' = nextOid
          /\ (/\ memo # NoMemo
              /\ memo.coll = response'.coll
              /\ memo.child_id = response'.request)
             => response'.docs = memo.docs]_vars

C5_Witness ==
    /\ ListOK
    /\ memo # NoMemo
    /\ memo.coll = "immunization"
    /\ response.coll = "immunization"
    /\ memo.child_id = response.request
    /\ memo.docs = response.docs
    /\ Len(response.docs) = 2

\* C6: every stored record stays in its collection, at its place, with the
\* same identifier and field values; collections only grow.
C6_RecordsPermanent ==
    [][\A c \in COLLECTIONS : IsPrefix(store[c], store'[c])]_vars

C6_Witness ==
    /\ Len(store["vaccine"]) = 2
    /\ ListOK
    /\ response.coll = "vaccine"

\* C7: a successful create adds exactly one record to its own collection
\* and leaves the other four collections unchanged.
C7_CreateFrame ==
    [][(response'.route = "create" /\ response'.status = 200)
       => /\ Len(store'[response'.coll]) = Len(store[response'.coll]) + 1
          /\ IsPrefix(store[response'.coll], store'[response'.coll])
          /\ \A c \in COLLECTIONS \ {response'.coll} : store'[c] = store[c]]_vars

C7_Witness ==
    /\ CreateOK
    /\ response.coll = "appointment"
    /\ Len(store["appointment"]) = 1
    /\ Len(store["immunization"]) = 1

----------------------------------------------------------------------------
\* Whether a reference text names a stored record of the target collection.
Names(text, target) ==
    \E k \in 1..Len(store[target]) : ObjectIdStr(store[target][k]["_id"]) = text

LastStored(coll) == store[coll][Len(store[coll])]

DanglingReference ==
    \/ /\ response.coll = "child"
       /\ response.request.guardian_id # Missing
       /\ ~Names(response.request.guardian_id[1], "guardian")
    \/ /\ response.coll \in {"immunization", "appointment"}
       /\ \/ ~Names(response.request.child_id[1], "child")
          \/ ~Names(response.request.vaccine_id[1], "vaccine")

\* C8: a well-formed create of a child, immunization or appointment whose
\* reference names no record of the target collection succeeds, and the
\* stored record carries the reference texts unchanged.
C8_NoReferentialIntegrity ==
    (/\ response.route = "create"
     /\ db = Database
     /\ response.coll \in {"child", "immunization", "appointment"}
     /\ WellFormed(response.coll, response.request)
     /\ DanglingReference)
    => /\ response.status = 200
       /\ IF response.coll = "child"
          THEN LastStored("child").guardian_id = response.request.guardian_id
          ELSE /\ LastStored(response.coll).child_id
                     = response.request.child_id[1]
               /\ LastStored(response.coll).vaccine_id
                     = response.request.vaccine_id[1]

C8_Witness ==
    /\ CreateOK
    /\ response.coll = "child"
    /\ store["guardian"] = <<>>
    /\ LastStored("child").guardian_id = Some(FirstIdText)

\* C9: a list of immunizations or appointments whose child_id is absent or
\* the empty string returns the whole collection, records with a non-empty
\* child_id included.
C9_EmptyFilterListsAll ==
    (/\ ListOK
     /\ ChildFiltered
     /\ response.request \in {None, Some("")})
    => SameRecords(response.docs, store[response.coll])

C9_Witness ==
    /\ ListOK
    /\ response.coll = "appointment"
    /\ response.request = Some("")
    /\ Len(response.docs) = 2
    /\ response.docs[1].child_id = FirstIdText
    /\ response.docs[2].child_id = ""

\* C10: in a create call validation precedes the availability check, which
\* precedes the insert: a malformed payload gets a validation error whether
\* or not the store is configured, ensure_db is reached only with a
\* well-formed payload, insert only with one and a configured store.
C10_CreateOrder ==
    response.route = "create"
    => LET wf == WellFormed(response.coll, response.request)
           t == response.trace
       IN  /\ t[1] = "validate"
           /\ ~wf => (response.status = 422 /\ t = <<"validate">>)
           /\ (\E k \in 1..Len(t) : t[k] = "ensure_db")
              => (wf /\ t[2] = "ensure_db")
           /\ (\E k \in 1..Len(t) : t[k] = "insert")
              => (wf /\ db = Database /\ t = <<"validate", "ensure_db", "insert">>)
           /\ (wf /\ db = DbNone)
              => (response.status = 500 /\ t = <<"validate", "ensure_db">>)

C10_Witness ==
    /\ db = DbNone
    /\ response.route = "create"
    /\ response.coll = "guardian"
    /\ response.status = 422
    /\ response.trace = <<"validate">>

====
